---- MODULE Spec2Model ----
(***************************************************************************)
(* cameraInit (src/software/pipeline/main_cameraInit.cpp): the resolution  *)
(* of a directory or a JSON manifest into groups / cameras / frames, the   *)
(* per-camera metadata and intrinsic inference, the assignment pass that   *)
(* creates views, pose ids, rig bindings and intrinsic ids, and the final  *)
(* report that decides whether the run succeeds.                           *)
(*                                                                         *)
(* Modelling conventions                                                   *)
(*  - a path is a string; Chars gives its characters (ASCII codes), from   *)
(*    which extension, folder and lexicographic order are computed;        *)
(*  - a double is a rational [n, d] in lowest terms (d = 0: inf / nan);    *)
(*  - a JSON value is JStr(path) or JArr(sequence of JSON values);         *)
(*  - what the external readers return for a frame (format, header, EXIF,  *)
(*    stable id) is drawn, when the frame is read, from the variable       *)
(*    world, the set of image files the run's file system may hold.        *)
(***************************************************************************)
EXTENDS Integers, Sequences, FiniteSets, TLC

(***************************** bounds **************************************)
\* JSON values (strings and arrays) in a manifest of SpecResolve
MaxManifestSize == 4
\* files in the image directory of SpecResolve
MaxDirFiles == 3
\* the size of a resource tree of SpecAssign: 1 for a frame, 2 for a camera
\* without frames and for a group without cameras
MaxTreeSize == 5
\* images in the manifest of SpecSensors
MaxSensorImages == 3
\* the size of a resource tree of SpecTag, counted as for SpecAssign
MaxTagTreeSize == 4

(***************************** numbers *************************************)
RECURSIVE GCD(_, _)
GCD(a, b) == IF b = 0 THEN a ELSE GCD(b, a % b)

Abs(x) == IF x < 0 THEN -x ELSE x

Sign(x) == IF x < 0 THEN -1 ELSE IF x = 0 THEN 0 ELSE 1

\* the double n / d, in lowest terms; d = 0 gives +inf, -inf or nan (n = 0)
R(n, d) ==
  IF d = 0 THEN [n |-> Sign(n), d |-> 0]
  ELSE LET g == GCD(Abs(n), Abs(d))
           s == IF d < 0 THEN -1 ELSE 1
       IN  [n |-> (s * n) \div g, d |-> (s * d) \div g]

FromInt(i) == R(i, 1)

RMul(a, b) == R(a.n * b.n, a.d * b.d)

RDiv(a, b) == R(a.n * b.d, a.d * b.n)

\* a <= 0 for a double a (false for nan)
RLeqZero(a) == IF a.d = 0 THEN a.n < 0 ELSE a.n <= 0

\* 0 < a and a < k, for a double a and an integer k
RBetween(a, k) == a.d # 0 /\ a.n > 0 /\ a.n < k * a.d

MinusOne == R(-1, 1)

Max(a, b) == IF a > b THEN a ELSE b

(***************************** strings *************************************)
\* the characters of the paths of the model's file systems
Chars(p) ==
  CASE p = "a.jpg"      -> <<97, 46, 106, 112, 103>>
    [] p = "photos"     -> <<112, 104, 111, 116, 111, 115>>
    [] p = "b.JPG"      -> <<98, 46, 74, 80, 71>>
    [] p = "Z.jpeg"     -> <<90, 46, 106, 112, 101, 103>>
    [] p = "c.png"      -> <<99, 46, 112, 110, 103>>
    [] p = "n.txt"      -> <<110, 46, 116, 120, 116>>
    [] p = "gone"       -> <<103, 111, 110, 101>>
    [] p = "dir"        -> <<100, 105, 114>>
    [] p = "dir/1.jpg"  -> <<100, 105, 114, 47, 49, 46, 106, 112, 103>>
    [] p = "dir/2.JPEG" -> <<100, 105, 114, 47, 50, 46, 74, 80, 69, 71>>
    [] p = "mix"        -> <<109, 105, 120>>
    [] p = "mix/gone"   -> <<109, 105, 120, 47, 103, 111, 110, 101>>
    [] p = "mix/3.jpg"  -> <<109, 105, 120, 47, 51, 46, 106, 112, 103>>
    [] p = "mix/void"   -> <<109, 105, 120, 47, 118, 111, 105, 100>>
    [] p = "a/f1.jpg"    -> <<97, 47, 102, 49, 46, 106, 112, 103>>
    [] p = "b/f2.jpg"    -> <<98, 47, 102, 50, 46, 106, 112, 103>>
    [] p = "a/f3.jpg"    -> <<97, 47, 102, 51, 46, 106, 112, 103>>
    [] p = "a/f4.jpg"    -> <<97, 47, 102, 52, 46, 106, 112, 103>>
    [] p = "b/f5.jpg"    -> <<98, 47, 102, 53, 46, 106, 112, 103>>
    [] p = "a/f6.jpg"    -> <<97, 47, 102, 54, 46, 106, 112, 103>>
    [] p = "a/f7.jpg"    -> <<97, 47, 102, 55, 46, 106, 112, 103>>
    [] p = "b/f8.jpg"    -> <<98, 47, 102, 56, 46, 106, 112, 103>>
    [] p = "a/f9.jpg"    -> <<97, 47, 102, 57, 46, 106, 112, 103>>
    [] p = "a/f10.jpg"   -> <<97, 47, 102, 49, 48, 46, 106, 112, 103>>
    [] OTHER            -> <<>>

\* the image paths of the resource trees of SpecAssign, in traversal order
FramePaths ==
  <<"a/f1.jpg", "b/f2.jpg", "a/f3.jpg", "a/f4.jpg", "b/f5.jpg", "a/f6.jpg",
    "a/f7.jpg", "b/f8.jpg", "a/f9.jpg", "a/f10.jpg">>

\* ::tolower on one character
tolower(c) == IF c >= 65 /\ c <= 90 THEN c + 32 ELSE c

ToLowerAll(s) == [i \in 1..Len(s) |-> tolower(s[i])]

\* the last position of character c in s, 0 when absent
LastIndexOf(s, c) ==
  LET at == {i \in 1..Len(s) : s[i] = c}
  IN  IF at = {} THEN 0 ELSE CHOOSE i \in at : \A j \in at : j <= i

\* stlplus::extension_part: what follows the last '.' of the file name
extension_part(p) ==
  LET s   == Chars(p)
      dot == LastIndexOf(s, 46)
  IN  IF dot = 0 \/ dot < LastIndexOf(s, 47) THEN <<>>
      ELSE SubSeq(s, dot + 1, Len(s))

\* stlplus::folder_part: the path up to and including its last '/'
folder_part(p) ==
  LET s == Chars(p) IN SubSeq(s, 1, LastIndexOf(s, 47))

\* std::string's operator< : lexicographic on the characters
RECURSIVE LexLess(_, _)
LexLess(s, t) ==
  IF t = <<>> THEN FALSE
  ELSE IF s = <<>> THEN TRUE
  ELSE IF Head(s) # Head(t) THEN Head(s) < Head(t)
  ELSE LexLess(Tail(s), Tail(t))

PathLess(p, q) == LexLess(Chars(p), Chars(q))

\* std::sort of a vector of paths
SortPaths(s) == SortSeq(s, PathLess)

\* "jpg", "jpeg"
supportedExtensions == {<<106, 112, 103>>, <<106, 112, 101, 103>>}

(***************************** file system *********************************)
\* the fixed file system the manifests of SpecResolve are resolved in
ManifestFiles == {"a.jpg", "n.txt", "dir/1.jpg", "dir/2.JPEG", "mix/3.jpg"}

ManifestFolders == {"dir", "mix", "mix/void"}

is_file(p) == p \in ManifestFiles \/ \E i \in 1..Len(FramePaths) : FramePaths[i] = p

is_folder(p) == p \in ManifestFolders

\* stlplus::folder_all: the entries of a folder, already joined to the folder
\* (stlplus::create_filespec)
folder_all(p) ==
  CASE p = "dir" -> <<"dir/1.jpg", "dir/2.JPEG">>
    [] p = "mix" -> <<"mix/gone", "mix/3.jpg", "mix/void">>
    [] OTHER     -> <<>>

(***************************** JSON ****************************************)
JStr(p) == [t |-> "string", v |-> p]

JArr(s) == [t |-> "array", v |-> s]

IsString(j) == j.t = "string"

IsArray(j) == j.t = "array"

(***************************** resolver ************************************)
\* listFiles: the result [ok, resources, reported] of listing folderOrFile
\* into resources; reported holds the paths an error message names.
\* listFolder is its loop over the entries of a folder, which returns at the
\* first entry that fails.
RECURSIVE listFiles(_, _, _), listFolder(_, _, _)
listFiles(folderOrFile, extensions, resources) ==
  IF is_file(folderOrFile) THEN
    \* an extension outside the filter falls through to the final return true
    [ok |-> TRUE,
     resources |-> IF ToLowerAll(extension_part(folderOrFile)) \in extensions
                   THEN Append(resources, folderOrFile) ELSE resources,
     reported |-> {}]
  ELSE IF is_folder(folderOrFile) THEN
    IF folder_all(folderOrFile) = <<>>
    THEN [ok |-> FALSE, resources |-> resources, reported |-> {folderOrFile}]
    ELSE listFolder(folder_all(folderOrFile), extensions, resources)
  ELSE [ok |-> FALSE, resources |-> resources, reported |-> {folderOrFile}]

listFolder(allFiles, extensions, resources) ==
  IF allFiles = <<>> THEN [ok |-> TRUE, resources |-> resources, reported |-> {}]
  ELSE LET r == listFiles(Head(allFiles), extensions, resources)
       IN  IF ~r.ok THEN r
           ELSE listFolder(Tail(allFiles), extensions, r.resources)

\* a loop of retrieveResources over the JSON values vals that lists every
\* string of them into one vector, clearing canListFiles on a failure and
\* going on; acc is [canListFiles, paths, reported]
RECURSIVE listStrings(_, _, _)
listStrings(vals, extensions, acc) ==
  IF vals = <<>> THEN acc
  ELSE IF IsString(Head(vals)) THEN
    LET r == listFiles(Head(vals).v, extensions, acc.paths)
    IN  listStrings(Tail(vals), extensions,
          [canListFiles |-> acc.canListFiles /\ r.ok,
           paths        |-> r.resources,
           reported     |-> acc.reported \cup r.reported])
  ELSE listStrings(Tail(vals), extensions, acc)

\* the loop over the entries itrCam of one group: acc is
\* [canListFiles, imagePathsPerCamera, intrinsicImagePaths, reported]
RECURSIVE retrieveGroup(_, _, _)
retrieveGroup(vals, extensions, acc) ==
  IF vals = <<>> THEN acc
  ELSE IF IsString(Head(vals)) THEN
    LET r == listFiles(Head(vals).v, extensions, acc.intrinsicImagePaths)
    IN  retrieveGroup(Tail(vals), extensions,
          [acc EXCEPT !.canListFiles = @ /\ r.ok,
                      !.intrinsicImagePaths = r.resources,
                      !.reported = @ \cup r.reported])
  ELSE IF IsArray(Head(vals)) THEN
    LET r == listStrings(Head(vals).v, extensions,
               [canListFiles |-> acc.canListFiles, paths |-> <<>>,
                reported |-> acc.reported])
    IN  retrieveGroup(Tail(vals), extensions,
          [acc EXCEPT !.canListFiles = r.canListFiles,
                      !.imagePathsPerCamera = Append(@, r.paths),
                      !.reported = r.reported])
  ELSE retrieveGroup(Tail(vals), extensions, acc)

\* resources.push_back({{{path}}}) for every path of imagePaths
Singletons(imagePaths) == [i \in 1..Len(imagePaths) |-> << <<imagePaths[i]>> >>]

\* the loop of retrieveResources over the top-level entries itrRig: acc is
\* [canListFiles, resources, reported]
RECURSIVE retrieveEntries(_, _, _)
retrieveEntries(vals, extensions, acc) ==
  IF vals = <<>> THEN acc
  ELSE IF IsString(Head(vals)) THEN
    LET r == listFiles(Head(vals).v, extensions, <<>>)
    IN  retrieveEntries(Tail(vals), extensions,
          [canListFiles |-> acc.canListFiles /\ r.ok,
           resources    |-> acc.resources \o Singletons(r.resources),
           reported     |-> acc.reported \cup r.reported])
  ELSE IF IsArray(Head(vals)) THEN
    LET g == retrieveGroup(Head(vals).v, extensions,
               [canListFiles |-> acc.canListFiles, imagePathsPerCamera |-> <<>>,
                intrinsicImagePaths |-> <<>>, reported |-> acc.reported])
        imagePathsPerCamera ==
          IF g.intrinsicImagePaths # <<>>
          THEN Append(g.imagePathsPerCamera, g.intrinsicImagePaths)
          ELSE g.imagePathsPerCamera
    IN  retrieveEntries(Tail(vals), extensions,
          [canListFiles |-> g.canListFiles,
           resources    |-> Append(acc.resources, imagePathsPerCamera),
           reported     |-> g.reported])
  ELSE retrieveEntries(Tail(vals), extensions, acc)

\* retrieveResources on the parsed document doc = [state, resources]: state
\* says what the file holds ("missing", "notjson", "nomember", "notarray" or
\* "ok" with the 'resources' array)
retrieveResources(doc, extensions) ==
  IF doc.state # "ok"
  THEN [canListFiles |-> FALSE, resources |-> <<>>, reported |-> {}]
  ELSE retrieveEntries(doc.resources, extensions,
         [canListFiles |-> TRUE, resources |-> <<>>, reported |-> {}])

(***************************** inference ***********************************)
\* EINTRINSIC_stringToEnum, on the names it knows
EINTRINSIC_stringToEnum(name) ==
  CASE name = "pinhole"  -> "PINHOLE_CAMERA"
    [] name = "radial1"  -> "PINHOLE_CAMERA_RADIAL1"
    [] name = "radial3"  -> "PINHOLE_CAMERA_RADIAL3"
    [] name = "brown"    -> "PINHOLE_CAMERA_BROWN"
    [] name = "fisheye4" -> "PINHOLE_CAMERA_FISHEYE"
    [] name = "fisheye1" -> "PINHOLE_CAMERA_FISHEYE1"

\* EINTRINSIC_enumToString(PINHOLE_CAMERA_RADIAL3)
Radial3Name == "radial3"

\* the serial number no one has set
NoSerial == [kind |-> "unset", text |-> "", folder |-> <<>>, group |-> 0, camera |-> 0]

\* a serial number read from the EXIF tags
ExifSerial(s) ==
  [kind |-> "exif", text |-> s, folder |-> <<>>, group |-> 0, camera |-> 0]

\* the constructor of ImageMetadata; exif is what EasyExifIO reads from the
\* file: [hasExif, brand, model, serial, focal, data]
ImageMetadata(exif, width, height) ==
  LET haveValidMetadata == exif.hasExif /\ exif.brand # "" /\ exif.model # ""
      custom   == exif.brand = "" \/ exif.model = ""
      exifData == IF haveValidMetadata THEN exif.data ELSE << >>
      \* the metadata size is replaced only by a tag whose value is <= 0
      w0 == IF "image_width" \in DOMAIN exifData /\ exifData["image_width"] <= 0
            THEN exifData["image_width"] ELSE width
      h0 == IF "image_height" \in DOMAIN exifData /\ exifData["image_height"] <= 0
            THEN exifData["image_height"] ELSE height
      rotated == w0 = height /\ h0 = width
      metadataImageWidth  == IF rotated THEN width ELSE w0
      metadataImageHeight == IF rotated THEN height ELSE h0
  IN  [width  |-> width,
       height |-> height,
       cameraBrand  |-> IF custom THEN "Custom" ELSE exif.brand,
       cameraModel  |-> IF custom THEN Radial3Name ELSE exif.model,
       serialNumber |-> ExifSerial(exif.serial),
       metadataImageWidth  |-> metadataImageWidth,
       metadataImageHeight |-> metadataImageHeight,
       ppx  |-> R(width, 2),
       ppy  |-> R(height, 2),
       ccdw |-> MinusOne,
       pxFocalLength |-> MinusOne,
       mmFocalLength |-> IF custom THEN R(12, 10) ELSE exif.focal,
       haveValidMetadata |-> haveValidMetadata,
       isResized |-> metadataImageWidth # width \/ metadataImageHeight # height,
       intrinsicType |-> "PINHOLE_CAMERA_START",
       exifData |-> exifData]

\* checkIntrinsicStringValidity on the fields of Kmatrix (the string split at
\* ';'; a field is [num, val]: whether it reads as a number, and the number),
\* with the out-parameters as they are when it returns
checkIntrinsicStringValidity(Kmatrix, focal, ppx, ppy) ==
  IF Len(Kmatrix) # 9
  THEN [ok |-> FALSE, focal |-> focal, ppx |-> ppx, ppy |-> ppy]
  ELSE LET bad  == {i \in 1..9 : ~Kmatrix[i].num}
           stop == IF bad = {} THEN 10 ELSE CHOOSE i \in bad : \A j \in bad : i <= j
           out(i, old) == IF i < stop THEN FromInt(Kmatrix[i].val) ELSE old
       IN  [ok |-> bad = {}, focal |-> out(1, focal), ppx |-> out(3, ppx),
            ppy |-> out(6, ppy)]

setKMatrix(m, kMatrix) ==
  IF kMatrix = <<>> THEN m
  ELSE LET r == checkIntrinsicStringValidity(kMatrix, m.pxFocalLength, m.ppx, m.ppy)
       IN  IF ~r.ok
           THEN [m EXCEPT !.ppx = R(m.width, 2), !.ppy = R(m.height, 2),
                          !.pxFocalLength = MinusOne]
           ELSE [m EXCEPT !.pxFocalLength = r.focal, !.ppx = r.ppx, !.ppy = r.ppy]

setFocalLengthPixel(m, pxFocalLengthPixel) ==
  [m EXCEPT !.pxFocalLength = pxFocalLengthPixel]

\* std::map::emplace keeps the value of a key that is already there
setSensorWidth(m, sensorWidth) ==
  [m EXCEPT !.ccdw = sensorWidth,
            !.exifData = IF "sensor_width" \in DOMAIN @ THEN @
                         ELSE @ @@ ("sensor_width" :> sensorWidth)]

setIntrinsicType(m, intrinsicType) == [m EXCEPT !.intrinsicType = intrinsicType]

\* computeSensorWidth: [found, m]; the database maps <<brand, model>> to a
\* sensor size (exif::sensordb::getInfo)
computeSensorWidth(m, db) ==
  IF <<m.cameraBrand, m.cameraModel>> \in DOMAIN db
  THEN [found |-> TRUE, m |-> setSensorWidth(m, db[<<m.cameraBrand, m.cameraModel>>])]
  ELSE [found |-> FALSE, m |-> m]

\* the focal length in pixels computeIntrinsic leaves in _pxFocalLength
ComputedFocalLengthPx(m) ==
  IF m.pxFocalLength = MinusOne
  THEN IF RLeqZero(m.mmFocalLength) THEN m.pxFocalLength
       ELSE IF m.ccdw # MinusOne
       THEN RDiv(RMul(FromInt(Max(m.metadataImageWidth, m.metadataImageHeight)),
                      m.mmFocalLength), m.ccdw)
       ELSE m.pxFocalLength
  ELSE m.pxFocalLength

\* the choice with the test of the short focal length before the test of the
\* resized image
ChosenIntrinsicTypeFisheyeFirst(m) ==
  IF m.intrinsicType = "PINHOLE_CAMERA_START"
  THEN IF m.cameraBrand = "Custom" THEN EINTRINSIC_stringToEnum(m.cameraModel)
       ELSE IF RBetween(m.mmFocalLength, 15) THEN "PINHOLE_CAMERA_FISHEYE"
       ELSE IF m.isResized THEN "PINHOLE_CAMERA"
       ELSE "PINHOLE_CAMERA_RADIAL3"
  ELSE m.intrinsicType

\* the camera model computeIntrinsic leaves in _intrinsicType
ChosenIntrinsicType(m) ==
  IF m.intrinsicType = "PINHOLE_CAMERA_START"
  THEN IF m.cameraBrand = "Custom" THEN EINTRINSIC_stringToEnum(m.cameraModel)
       ELSE IF m.isResized THEN "PINHOLE_CAMERA"
       ELSE IF RBetween(m.mmFocalLength, 15) THEN "PINHOLE_CAMERA_FISHEYE"
       ELSE "PINHOLE_CAMERA_RADIAL3"
  ELSE m.intrinsicType

\* the end of computeIntrinsic: [m, intrinsic], the object as the call
\* leaves it and the intrinsic it returns (createPinholeIntrinsic, the GoPro
\* distortion seeds, the serial number of valid metadata)
createPinholeIntrinsic(m, intrinsicType, pxFocalLength) ==
  [m |-> [m EXCEPT !.pxFocalLength = pxFocalLength,
                   !.intrinsicType = intrinsicType],
   intrinsic |->
     [type   |-> intrinsicType,
      width  |-> m.width,
      height |-> m.height,
      pxFocalLength |-> pxFocalLength,
      ppx |-> m.ppx,
      ppy |-> m.ppy,
      initialFocalLengthPix |-> pxFocalLength,
      distortion |->
        IF m.cameraBrand = "GoPro" /\ intrinsicType = "PINHOLE_CAMERA_FISHEYE"
        THEN "gopro_fisheye4"
        ELSE IF m.cameraBrand = "GoPro" /\ intrinsicType = "PINHOLE_CAMERA_FISHEYE1"
        THEN "gopro_fisheye1" ELSE "default",
      serialNumber |-> IF m.haveValidMetadata THEN m.serialNumber ELSE NoSerial]]

computeIntrinsic(m) ==
  createPinholeIntrinsic(m, ChosenIntrinsicType(m), ComputedFocalLengthPx(m))

(***************************** state ***************************************)
VARIABLES
  \* the inputs of the run: the command line, the manifest file, the image
  \* directory, the sensor database and the image files
  imageDirectory, jsonFile, document, folderFiles,
  userKMatrix, userCameraModelName, userFocalLengthPixel, userSensorWidth,
  userGroupCameraModel, database, world,
  \* where main is, and how it ended ("" while it runs)
  pc, exit,
  \* main's variables
  userCameraModel, allImagePaths, reported,
  checkId, nbTotalImages, nbSingleImages, nbInstrinsicGroup, nbRigs,
  rigId, poseId, intrinsicId, nbCurrImages, groupId, cameraId, frameId,
  isCameraFirstImage, cameraWidth, cameraHeight, cameraIntrincicId,
  cameraExifData, imageMetadata,
  views, intrinsics, rigs, unknownSensorImages, noMetadataImages,
  \* the view id of the last frame that got one, what the last frame
  \* iteration did, the warnings and errors of the final report, and whether
  \* sfm_data.json was written
  viewId, lastFrame, warnings, saved

inputs ==
  <<imageDirectory, jsonFile, document, folderFiles, userKMatrix,
    userCameraModelName, userSensorWidth, userGroupCameraModel, database, world>>

checkVars == <<checkId, nbTotalImages, nbSingleImages, nbInstrinsicGroup, nbRigs>>

cameraVars ==
  <<isCameraFirstImage, cameraWidth, cameraHeight, cameraIntrincicId,
    cameraExifData, imageMetadata>>

counters == <<rigId, poseId, intrinsicId, nbCurrImages>>

loopVars == <<groupId, cameraId, frameId>>

registries == <<views, intrinsics, rigs>>

lists == <<unknownSensorImages, noMetadataImages>>

vars ==
  <<inputs, userFocalLengthPixel, pc, exit, userCameraModel, allImagePaths,
    reported, checkVars, counters, loopVars, cameraVars, registries, lists,
    viewId, lastFrame, warnings, saved>>

\* UndefinedIndexT, the id of nothing
UndefinedIndexT == -1

\* the ImageMetadata object before any frame is read
NoImageMetadata == ImageMetadata(
  [hasExif |-> FALSE, brand |-> "", model |-> "", serial |-> "",
   focal |-> MinusOne, data |-> << >>], 0, 0)

\* main's variables as their declarations initialise them
InitMain ==
  /\ pc = "options"
  /\ exit = ""
  /\ userCameraModel = "PINHOLE_CAMERA_START"
  /\ allImagePaths = <<>>
  /\ reported = {}
  /\ checkId = 0
  /\ nbTotalImages = 0
  /\ nbSingleImages = 0
  /\ nbInstrinsicGroup = 0
  /\ nbRigs = 0
  /\ rigId = 0
  /\ poseId = 0
  /\ intrinsicId = 0
  /\ nbCurrImages = 0
  /\ groupId = 0
  /\ cameraId = 0
  /\ frameId = 0
  /\ isCameraFirstImage = TRUE
  /\ cameraWidth = 0
  /\ cameraHeight = 0
  /\ cameraIntrincicId = 0
  /\ cameraExifData = << >>
  /\ imageMetadata = NoImageMetadata
  /\ views = << >>
  /\ intrinsics = << >>
  /\ rigs = << >>
  /\ unknownSensorImages = <<>>
  /\ noMetadataImages = <<>>
  /\ viewId = ""
  /\ lastFrame = ""
  /\ warnings = {}
  /\ saved = FALSE

\* return EXIT_FAILURE
Fail == pc' = "done" /\ exit' = "EXIT_FAILURE"

(***************************** main: options *******************************)
\* stlplus::folder_exists
folder_exists(p) == p = "photos"

\* main, from the parsed command line to the sensor database: the checks of
\* the options (the output directory and the database file are taken as good)
ParseOptions ==
  /\ pc = "options"
  /\ LET k == checkIntrinsicStringValidity(userKMatrix, userFocalLengthPixel,
                                           MinusOne, MinusOne)
         \* the checks that come before the K matrix is read
         early == \/ imageDirectory # "" /\ jsonFile # ""
                  \/ imageDirectory # "" /\ ~folder_exists(imageDirectory)
                  \/ userKMatrix # <<>> /\ userFocalLengthPixel # MinusOne
     IN  /\ userCameraModel' = IF userCameraModelName # ""
                               THEN EINTRINSIC_stringToEnum(userCameraModelName)
                               ELSE "PINHOLE_CAMERA_START"
         /\ userFocalLengthPixel' = IF ~early /\ userKMatrix # <<>>
                                    THEN k.focal ELSE userFocalLengthPixel
         /\ IF early \/ (userKMatrix # <<>> /\ ~k.ok)
            THEN Fail ELSE pc' = "retrieve" /\ exit' = exit
  /\ UNCHANGED <<inputs, allImagePaths, reported, checkVars, counters, loopVars,
                 cameraVars, registries, lists, viewId, lastFrame, warnings, saved>>

(***************************** main: image paths ***************************)
\* main, "retrieve image paths" and "check the number of groups"
RetrieveImagePaths ==
  /\ pc = "retrieve"
  /\ \E r \in {IF imageDirectory = "" THEN retrieveResources(document, supportedExtensions)
                 ELSE [canListFiles |-> folderFiles # <<>>,
                       resources |-> Singletons(SortPaths(folderFiles)),
                       reported |-> reported]} :
       /\ allImagePaths' = r.resources
       /\ reported' = r.reported
       /\ IF ~r.canListFiles \/ r.resources = <<>>
          THEN Fail ELSE pc' = "check" /\ exit' = exit
  /\ UNCHANGED <<inputs, userFocalLengthPixel, userCameraModel, checkVars,
                 counters, loopVars, cameraVars, registries, lists, viewId, lastFrame,
                 warnings, saved>>

(***************************** main: rig check *****************************)
\* what front().size() of a group without cameras can read: the vector has
\* no first element, so the read is undefined; it ends the process or yields
\* some size
FrontOfEmpty == {0, 2}

\* the comparison of the frame counts with > in place of !=
RigMismatchGreater(groupImagePaths, nbCamImages) ==
  /\ Len(groupImagePaths) > 1
  /\ \E c \in 1..Len(groupImagePaths) : Len(groupImagePaths[c]) > nbCamImages

\* "Each camera of a rig must have the same number of images."
RigMismatch(groupImagePaths, nbCamImages) ==
  /\ Len(groupImagePaths) > 1
  /\ \E c \in 1..Len(groupImagePaths) : Len(groupImagePaths[c]) # nbCamImages

\* main, "check rigs": one iteration of the loop over the groups (the group
\* at checkId); the last iteration goes on to the image listing
CheckRig ==
  /\ pc = "check"
  /\ \E front \in (IF Len(allImagePaths[checkId + 1]) = 0 THEN FrontOfEmpty ELSE {0}),
        segfault \in (IF Len(allImagePaths[checkId + 1]) = 0 THEN BOOLEAN ELSE {FALSE}) :
       LET groupImagePaths == allImagePaths[checkId + 1]
           nbCameras   == Len(groupImagePaths)
           crash       == nbCameras = 0 /\ segfault
           nbCamImages == IF nbCameras = 0 THEN front ELSE Len(groupImagePaths[1])
           mismatch    == RigMismatch(groupImagePaths, nbCamImages)
       IN  IF crash
           THEN /\ pc' = "done"
                /\ exit' = "crash"
                /\ UNCHANGED checkVars
           ELSE /\ nbTotalImages' =
                     IF nbCameras > 1 THEN nbTotalImages + nbCameras * nbCamImages
                     ELSE IF nbCamImages > 1 THEN nbTotalImages + nbCamImages
                     ELSE nbTotalImages + 1
                /\ nbRigs' = IF nbCameras > 1 THEN nbRigs + 1 ELSE nbRigs
                /\ nbInstrinsicGroup' =
                     IF nbCameras <= 1 /\ nbCamImages > 1
                     THEN nbInstrinsicGroup + 1 ELSE nbInstrinsicGroup
                /\ nbSingleImages' =
                     IF nbCameras <= 1 /\ nbCamImages <= 1
                     THEN nbSingleImages + 1 ELSE nbSingleImages
                /\ checkId' = checkId + 1
                /\ IF mismatch THEN Fail
                   ELSE /\ pc' = IF checkId + 1 = Len(allImagePaths)
                                 THEN "camera" ELSE "check"
                        /\ exit' = exit
  /\ UNCHANGED <<inputs, userFocalLengthPixel, userCameraModel, allImagePaths,
                 reported, counters, loopVars, cameraVars, registries, lists,
                 viewId, lastFrame, warnings, saved>>

(***************************** main: image listing *************************)
\* the group and the camera the loops are at
GroupImagePaths == allImagePaths[groupId + 1]

NbCameras == Len(GroupImagePaths)

IsRig == NbCameras > 1

CameraImagePaths == GroupImagePaths[cameraId + 1]

NbImages == Len(CameraImagePaths)

IsGroup == NbImages > 1

\* stlplus::folder_part(imageAbsPath)
ImageFolder(imagePath) ==
  IF imageDirectory = "" THEN folder_part(imagePath)
  ELSE Chars(imageDirectory) \o <<47>>

\* the serial numbers the listing gives a camera without valid metadata
FolderSerial(folder) ==
  [kind |-> "folder", text |-> "", folder |-> folder, group |-> 0, camera |-> 0]

RigSerial(g, c) ==
  [kind |-> "no_metadata_rig", text |-> "", folder |-> <<>>, group |-> g, camera |-> c]

GroupSerial(g) ==
  [kind |-> "no_metadata_intrincic_group", text |-> "", folder |-> <<>>,
   group |-> g, camera |-> 0]

\* the counter of the intrinsic ids left as it is
NextIntrinsicIdUnchanged == intrinsicId

\* ++intrinsicId, once for every camera
NextIntrinsicId == intrinsicId + 1

\* the head of the loop over the cameras of a group: the camera's variables,
\* its intrinsic id, and the rig of a rig group
BeginCamera ==
  /\ pc = "camera"
  /\ cameraId < NbCameras
  /\ isCameraFirstImage' = TRUE
  /\ cameraWidth' = 0
  /\ cameraHeight' = 0
  /\ cameraIntrincicId' = intrinsicId
  /\ cameraExifData' = << >>
  /\ intrinsicId' = NextIntrinsicId
  /\ rigs' = IF IsRig
             THEN [r \in DOMAIN rigs \cup {rigId} |-> IF r = rigId THEN NbCameras ELSE rigs[r]]
             ELSE rigs
  /\ frameId' = 0
  /\ pc' = "frame"
  /\ UNCHANGED <<inputs, userFocalLengthPixel, exit, userCameraModel, allImagePaths,
                 reported, checkVars, rigId, poseId, nbCurrImages, groupId, cameraId,
                 imageMetadata, views, intrinsics, lists, viewId, lastFrame, warnings, saved>>

\* "add user custom metadata"
WithUserCameraModel(m) ==
  IF userCameraModelName # "" THEN setIntrinsicType(m, userCameraModel) ELSE m

WithUserKMatrix(m) == IF userKMatrix # <<>> THEN setKMatrix(m, userKMatrix) ELSE m

WithUserFocalLengthPixel(m) ==
  IF userFocalLengthPixel # MinusOne
  THEN setFocalLengthPixel(m, userFocalLengthPixel) ELSE m

\* "find image sensor width": [m, unknownSensor], the object and whether
\* the image goes to unknownSensorImages
UnknownSensor(sw) ==
  [m |-> sw.m,
   unknownSensor |-> ~sw.found /\ sw.m.haveValidMetadata
                     /\ sw.m.pxFocalLength = MinusOne]

WithSensorWidth(m) ==
  IF userSensorWidth # MinusOne
  THEN [m |-> setSensorWidth(m, userSensorWidth), unknownSensor |-> FALSE]
  ELSE UnknownSensor(computeSensorWidth(m, database))

\* "get intrinsic and metadata from first view of the group": the
\* ImageMetadata object after the user's parameters and the sensor width,
\* [m, unknownSensor]
CameraMetadata(img) ==
  WithSensorWidth(WithUserFocalLengthPixel(WithUserKMatrix(WithUserCameraModel(
    ImageMetadata(img.exif, img.width, img.height)))))

\* the tagging without the branch of the rig cameras
CameraSerialWithoutRig(haveValidMetadata, serial, imageFolder) ==
  IF haveValidMetadata THEN serial
  ELSE IF userGroupCameraModel = 2 THEN FolderSerial(imageFolder)
  ELSE IF IsGroup THEN GroupSerial(groupId)
  ELSE serial

\* the tagging with the test of the intrinsic group before the test of the rig
CameraSerialGroupFirst(haveValidMetadata, serial, imageFolder) ==
  IF haveValidMetadata THEN serial
  ELSE IF userGroupCameraModel = 2 THEN FolderSerial(imageFolder)
  ELSE IF IsGroup THEN GroupSerial(groupId)
  ELSE IF IsRig THEN RigSerial(groupId, cameraId)
  ELSE serial

\* the serial number of the intrinsic of a camera, after the tagging of the
\* cameras without valid metadata
CameraSerial(haveValidMetadata, serial, imageFolder) ==
  IF haveValidMetadata THEN serial
  ELSE IF userGroupCameraModel = 2 THEN FolderSerial(imageFolder)
  ELSE IF IsRig THEN RigSerial(groupId, cameraId)
  ELSE IF IsGroup THEN GroupSerial(groupId)
  ELSE serial

\* "if not the first image check dimensions"
DimensionMismatch(width, height) == width # cameraWidth /\ height # cameraHeight

\* the check of the view identifier left out
DuplicateViewUnchecked(uid) == FALSE

\* "check duplicated view identifier"
DuplicateView(uid) == uid \in DOMAIN views

\* the pose id of a rig view without the frame index
CameraPoseIdOfCounter == poseId

\* the pose id of a new view
CameraPoseId == IF IsRig THEN poseId + frameId ELSE poseId

\* the View of a frame
NewView(imagePath, uid, width, height) ==
  [imagePath |-> imagePath, viewId |-> uid, intrinsicId |-> cameraIntrincicId',
   poseId |-> CameraPoseId, width |-> width, height |-> height,
   metadata |-> cameraExifData',
   rigId |-> IF IsRig THEN rigId ELSE UndefinedIndexT,
   subPoseId |-> IF IsRig THEN cameraId ELSE UndefinedIndexT]

\* what computeUID returns for a frame: the id of a view there is when the
\* file is a copy of that view's image, an id of the frame's own otherwise
ComputeUID(img, imagePath) ==
  IF img.copy /\ DOMAIN views # {} THEN DOMAIN views ELSE {imagePath}

\* "retrieve intrinsic" and the tagging of its serial number: what the
\* first image gives its camera, [m, intrinsic, unknownSensor]
TaggedIntrinsic(cm, ci, imagePath) ==
  [m |-> ci.m,
   unknownSensor |-> cm.unknownSensor,
   intrinsic |-> [ci.intrinsic EXCEPT !.serialNumber =
                    CameraSerial(cm.m.haveValidMetadata, @, ImageFolder(imagePath))]]

RetrievedIntrinsic(cm, imagePath) == TaggedIntrinsic(cm, computeIntrinsic(cm.m), imagePath)

FirstImage(img, imagePath) == RetrievedIntrinsic(CameraMetadata(img), imagePath)

\* why the listing skips a file before it looks at its metadata ("" when it
\* does not)
Skipped(img) ==
  IF ~img.format THEN "unknown_format"
  ELSE IF ~img.header THEN "unreadable_header"
  ELSE IF img.width <= 0 \/ img.height <= 0 THEN "invalid_size"
  ELSE ""

\* what an iteration of the loop over the frames does with the file
FrameOutcome(img, uid) ==
  IF Skipped(img) # "" THEN Skipped(img)
  ELSE IF ~isCameraFirstImage /\ DimensionMismatch(img.width, img.height)
  THEN "dimension_mismatch"
  ELSE IF DuplicateView(uid) THEN "duplicate"
  ELSE "view"

\* one iteration of the loop over the frames of a camera; img is the file at
\* the path, as GetFormat, ReadImageHeader and EasyExifIO read it
ProcessFrame ==
  /\ pc = "frame"
  /\ frameId < NbImages
  /\ \E img \in world :
     \E uid \in ComputeUID(img, CameraImagePaths[frameId + 1]) :
     \E outcome \in {FrameOutcome(img, uid)} :
     \E first \in {(outcome \in {"duplicate", "view"}) /\ isCameraFirstImage} :
     \E camera \in {IF first THEN FirstImage(img, CameraImagePaths[frameId + 1])
                    ELSE [m |-> imageMetadata, unknownSensor |-> FALSE]} :
       LET imagePath == CameraImagePaths[frameId + 1]
       IN  /\ isCameraFirstImage' = IF first THEN FALSE ELSE isCameraFirstImage
           /\ cameraWidth'  = IF first THEN img.width ELSE cameraWidth
           /\ cameraHeight' = IF first THEN img.height ELSE cameraHeight
           /\ cameraExifData' = IF first THEN camera.m.exifData ELSE cameraExifData
           /\ imageMetadata' = camera.m
           /\ unknownSensorImages' =
                IF camera.unknownSensor
                THEN Append(unknownSensorImages,
                            [filePath |-> imagePath, brand |-> camera.m.cameraBrand,
                             model |-> camera.m.cameraModel])
                ELSE unknownSensorImages
           /\ noMetadataImages' =
                IF first /\ ~camera.m.haveValidMetadata
                THEN Append(noMetadataImages, imagePath) ELSE noMetadataImages
           /\ intrinsics' =
                IF first
                THEN [i \in DOMAIN intrinsics \cup {cameraIntrincicId} |->
                        IF i = cameraIntrincicId THEN camera.intrinsic ELSE intrinsics[i]]
                ELSE intrinsics
           /\ UNCHANGED cameraIntrincicId
           /\ views' =
                IF outcome = "view"
                THEN [v \in DOMAIN views \cup {uid} |->
                        IF v = uid THEN NewView(imagePath, uid, img.width, img.height)
                        ELSE views[v]]
                ELSE views
           /\ poseId' = IF outcome = "view" /\ ~IsRig THEN poseId + 1 ELSE poseId
           /\ nbCurrImages' = IF outcome = "view" THEN nbCurrImages + 1 ELSE nbCurrImages
           /\ viewId' = IF outcome \in {"duplicate", "view"} THEN uid ELSE viewId
           /\ lastFrame' = outcome
           /\ IF outcome = "dimension_mismatch" THEN Fail /\ UNCHANGED frameId
              ELSE pc' = pc /\ exit' = exit /\ frameId' = frameId + 1
  /\ UNCHANGED <<inputs, userFocalLengthPixel, userCameraModel, allImagePaths,
                 reported, checkVars, rigId, intrinsicId, groupId, cameraId, rigs,
                 warnings, saved>>

\* the end of the loop over the frames of a camera
EndCamera ==
  /\ pc = "frame"
  /\ frameId = NbImages
  /\ cameraId' = cameraId + 1
  /\ pc' = "camera"
  /\ UNCHANGED <<inputs, userFocalLengthPixel, exit, userCameraModel, allImagePaths,
                 reported, checkVars, counters, groupId, frameId, cameraVars,
                 registries, lists, viewId, lastFrame, warnings, saved>>

\* the pose id the next group starts at
NextPoseId == IF IsRig THEN poseId + Len(GroupImagePaths[1]) ELSE poseId

\* the end of the loop over the cameras of a group, and of the listing after
\* the last group
EndGroup ==
  /\ pc = "camera"
  /\ cameraId = NbCameras
  /\ rigId' = IF IsRig THEN rigId + 1 ELSE rigId
  /\ poseId' = NextPoseId
  /\ groupId' = groupId + 1
  /\ cameraId' = 0
  /\ pc' = IF groupId + 1 = Len(allImagePaths) THEN "report" ELSE "camera"
  /\ UNCHANGED <<inputs, userFocalLengthPixel, exit, userCameraModel, allImagePaths,
                 reported, checkVars, intrinsicId, nbCurrImages, frameId, cameraVars,
                 registries, lists, viewId, lastFrame, warnings, saved>>

(***************************** main: report ********************************)
\* sensorInfo::operator==
SameSensor(a, b) == a.brand = b.brand /\ a.model = b.model

\* std::unique: of every run of equal consecutive elements, the first
RECURSIVE Unique(_)
Unique(s) ==
  IF Len(s) <= 1 THEN s
  ELSE IF SameSensor(s[1], s[2]) THEN Unique(<<s[1]>> \o Tail(Tail(s)))
  ELSE <<s[1]>> \o Unique(Tail(s))

\* the post-pass that coalesces the intrinsics of one calibration signature:
\* [views, intrinsics] with every view on the least id of its intrinsic's
\* signature and one intrinsic per signature
GroupSharedIntrinsics(vs, is) ==
  LET least(i) == CHOOSE j \in DOMAIN is :
                    /\ is[j] = is[i]
                    /\ \A k \in DOMAIN is : is[k] = is[i] => j <= k
      kept == {least(i) : i \in DOMAIN is}
  IN  [views |-> [v \in DOMAIN vs |->
                    IF vs[v].intrinsicId \in DOMAIN is
                    THEN [vs[v] EXCEPT !.intrinsicId = least(@)] ELSE vs[v]],
       intrinsics |-> [i \in kept |-> is[i]]]

\* "count view without intrinsic"
ViewsWithoutIntrinsic(vs) ==
  Cardinality({v \in DOMAIN vs : vs[v].intrinsicId = UndefinedIndexT})

\* what follows the listing: the warning of the images without metadata, the
\* error of the unknown sensors, the grouping of the intrinsics, the file
\* sfm_data.json (saveOk: whether Save could write it) and the report
Report ==
  /\ pc = "report"
  /\ \E saveOk \in BOOLEAN :
     \E grouped \in {IF userGroupCameraModel # 0
                     THEN GroupSharedIntrinsics(views, intrinsics)
                     ELSE [views |-> views, intrinsics |-> intrinsics]} :
     \E viewsWithoutIntrinsic \in {ViewsWithoutIntrinsic(grouped.views)} :
       LET noMetadata == IF noMetadataImages # <<>> THEN {"no_metadata"} ELSE {}
           unknown    == unknownSensorImages # <<>>
           nbViews    == Cardinality(DOMAIN grouped.views)
       IN  /\ unknownSensorImages' =
                IF unknown THEN Unique(unknownSensorImages) ELSE unknownSensorImages
           /\ views' = IF unknown THEN views ELSE grouped.views
           /\ intrinsics' = IF unknown THEN intrinsics ELSE grouped.intrinsics
           /\ saved' = (~unknown /\ saveOk)
           /\ warnings' =
                IF unknown THEN noMetadata \cup {"unknown_sensor"}
                ELSE IF ~saveOk THEN noMetadata
                ELSE IF viewsWithoutIntrinsic = nbViews
                THEN noMetadata \cup {"no_metadata_in_all_images"}
                ELSE IF viewsWithoutIntrinsic > 0
                THEN noMetadata \cup {"views_without_metadata"}
                ELSE noMetadata
           /\ exit' = IF unknown \/ ~saveOk \/ viewsWithoutIntrinsic = nbViews
                      THEN "EXIT_FAILURE" ELSE "EXIT_SUCCESS"
  /\ pc' = "done"
  /\ UNCHANGED <<inputs, userFocalLengthPixel, userCameraModel, allImagePaths,
                 reported, checkVars, counters, loopVars, cameraVars, rigs,
                 noMetadataImages, viewId, lastFrame>>

(***************************** inputs **************************************)
\* the sequences whose elements' weights add up to n, W[w] being the
\* elements of weight w
RECURSIVE SeqsOfWeight(_, _)
SeqsOfWeight(W, n) ==
  IF n = 0 THEN {<<>>}
  ELSE UNION {{<<e>> \o s : e \in W[w], s \in SeqsOfWeight(W, n - w)} : w \in 1..n}

\* the paths a manifest of SpecResolve names: a file, a file the extension
\* filter drops, a path that does not exist, a folder of two files and a
\* folder whose first entry does not exist and whose last is an empty folder
ManifestPaths == {"a.jpg", "n.txt", "gone", "dir", "mix"}

JStrings == {JStr(p) : p \in ManifestPaths}

\* the JSON values of size k (strings + arrays): one camera of a rig, one
\* entry of a group, one group, one top-level entry
CameraValues(k) == {JArr(s) : s \in [1..(k - 1) -> JStrings]}

GroupEntryValues(k) == (IF k = 1 THEN JStrings ELSE {}) \cup CameraValues(k)

GroupValues(k) ==
  {JArr(s) : s \in SeqsOfWeight([w \in 1..k |-> GroupEntryValues(w)], k - 1)}

EntryValues(k) == (IF k = 1 THEN JStrings ELSE {}) \cup GroupValues(k)

\* the 'resources' arrays of at most n JSON values
Manifests(n) ==
  UNION {SeqsOfWeight([w \in 1..n |-> EntryValues(w)], m) : m \in 0..n}

\* the files an image directory of SpecResolve may hold
DirectoryNames == {"a.jpg", "b.JPG", "Z.jpeg", "c.png", "n.txt"}

\* what stlplus::folder_files can return for it: at most n of them, in any order
Listings(n) ==
  {s \in UNION {[1..k -> DirectoryNames] : k \in 0..n} :
     \A i, j \in 1..Len(s) : i # j => s[i] # s[j]}

\* the sensor database: the sensor size of the cameras it knows
SensorDatabase == (<<"Canon", "EOS">> :> R(36, 1)) @@ (<<"GoPro", "HERO">> :> R(6, 1))

\* no optional parameter given
DefaultOptions ==
  /\ userKMatrix = <<>>
  /\ userCameraModelName = ""
  /\ userFocalLengthPixel = MinusOne
  /\ userSensorWidth = MinusOne
  /\ userGroupCameraModel = 1
  /\ database = SensorDatabase

\* the image files: what GetFormat, ReadImageHeader and EasyExifIO read
ImageFile(format, header, width, height, exif) ==
  [format |-> format, header |-> header, width |-> width, height |-> height,
   exif |-> exif, copy |-> FALSE]

NoExif ==
  [hasExif |-> FALSE, brand |-> "", model |-> "", serial |-> "",
   focal |-> MinusOne, data |-> << >>]

Exif(brand, model, serial, focal, data) ==
  [hasExif |-> TRUE, brand |-> brand, model |-> model, serial |-> serial,
   focal |-> focal, data |-> data]

\* a readable image of 4 x 2 pixels without EXIF tags
PlainImage == ImageFile(TRUE, TRUE, 4, 2, NoExif)

\* the other files a listing may meet: a copy of an image it has met, the
\* three kinds the listing skips, images of other sizes, images of a camera
\* the database knows and of one it does not
OtherFiles ==
  { [PlainImage EXCEPT !.copy = TRUE],
    ImageFile(FALSE, FALSE, 0, 0, NoExif),
    ImageFile(TRUE, FALSE, 0, 0, NoExif),
    ImageFile(TRUE, TRUE, 0, 2, NoExif),
    ImageFile(TRUE, TRUE, 4, 4, NoExif),
    ImageFile(TRUE, TRUE, 2, 4, NoExif),
    ImageFile(TRUE, TRUE, 4, 2, Exif("Canon", "EOS", "s1", R(50, 1), << >>)),
    ImageFile(TRUE, TRUE, 4, 2, Exif("Foo", "X1", "s2", R(50, 1), << >>)) }

\* the shapes of the resource trees of size at most n: a tree is a sequence
\* of groups, a group a sequence of cameras, a camera its number of frames
CameraShapes(w) == {w} \cup (IF w = 2 THEN {0} ELSE {})

GroupShapes(w) ==
  SeqsOfWeight([k \in 1..w |-> CameraShapes(k)], w) \cup (IF w = 2 THEN {<<>>} ELSE {})

TreeShapes(n) ==
  UNION {SeqsOfWeight([k \in 1..m |-> GroupShapes(k)], m) : m \in 1..n}

RECURSIVE SumSeq(_)
SumSeq(s) == IF s = <<>> THEN 0 ELSE s[1] + SumSeq(Tail(s))

\* the frames of the groups before group g, and of the cameras before
\* camera c of group g
FramesBeforeGroup(shape, g) == SumSeq([h \in 1..(g - 1) |-> SumSeq(shape[h])])

FramesBeforeCamera(shape, g, c) ==
  FramesBeforeGroup(shape, g) + SumSeq(SubSeq(shape[g], 1, c - 1))

\* the manifest of a shape: every camera a nested array of the next paths
\* of FramePaths
ManifestOfShape(shape) ==
  [g \in 1..Len(shape) |->
     JArr([c \in 1..Len(shape[g]) |->
             JArr([f \in 1..shape[g][c] |->
                     JStr(FramePaths[FramesBeforeCamera(shape, g, c) + f])])])]

\* a run on the manifest of a resource tree, where every file is the plain
\* image or one other file
InitAssign ==
  /\ InitMain
  /\ DefaultOptions
  /\ imageDirectory = ""
  /\ jsonFile = "in.json"
  /\ folderFiles = <<>>
  /\ document \in {[state |-> "ok", resources |-> ManifestOfShape(sh)] :
                     sh \in TreeShapes(MaxTreeSize)}
  /\ world \in {{PlainImage, o} : o \in OtherFiles}

\* a well-formed K matrix, "1000;0;500;0;1000;375;0;0;1", and one whose
\* sixth field is no number
Field(val) == [num |-> TRUE, val |-> val]

WellFormedK ==
  <<Field(1000), Field(0), Field(500), Field(0), Field(1000), Field(375),
    Field(0), Field(0), Field(1)>>

MalformedK == [WellFormedK EXCEPT ![6] = [num |-> FALSE, val |-> 0]]

\* one of eight fields, "1000;0;500;0;1000;375;0;0"
ShortK == SubSeq(WellFormedK, 1, 8)

\* one whose focal length is -1, "-1;0;500;0;-1;375;0;0;1"
SentinelK == [WellFormedK EXCEPT ![1] = Field(-1), ![5] = Field(-1)]

\* the EXIF tags of the size of the image: each absent, or one of these values
StatedSizes == {0, 2, 4}

ExifTags ==
  {<< >>} \cup {("image_width" :> w) : w \in StatedSizes}
          \cup {("image_height" :> h) : h \in StatedSizes}
          \cup {("image_width" :> w) @@ ("image_height" :> h) :
                  w \in StatedSizes, h \in StatedSizes}

\* the images of SpecInfer: 4 x 2 pixels, without EXIF or with the tags of a
\* camera the database knows, of cameras it does not know, or without brand
InferImages ==
  {ImageFile(TRUE, TRUE, 4, 2, NoExif)} \cup
  {ImageFile(TRUE, TRUE, 4, 2, Exif(bm[1], bm[2], "s1", focal, tags)) :
     bm \in {<<"Canon", "EOS">>, <<"GoPro", "HERO">>, <<"Foo", "X1">>, <<"", "X1">>},
     focal \in {R(0, 1), R(10, 1), R(50, 1)},
     tags \in ExifTags}

\* a run on a manifest of one image, for every image of InferImages and
\* every combination of the optional parameters
InitInfer ==
  /\ InitMain
  /\ imageDirectory = ""
  /\ jsonFile = "in.json"
  /\ folderFiles = <<>>
  /\ document = [state |-> "ok", resources |-> <<JStr(FramePaths[1])>>]
  /\ database = SensorDatabase
  /\ userGroupCameraModel = 1
  /\ userCameraModelName \in {"", "pinhole", "fisheye4"}
  /\ userKMatrix \in {<<>>, WellFormedK, MalformedK, ShortK, SentinelK}
  /\ userFocalLengthPixel \in {MinusOne, R(1000, 1)}
  /\ userSensorWidth \in {MinusOne, R(36, 1), R(0, 1), R(-2, 1)}
  /\ world \in {{img} : img \in InferImages}

\* a run on a rig of two cameras of three frames each, all readable, of the
\* same size, without EXIF, for every combination of the optional parameters
InitRig ==
  /\ InitMain
  /\ imageDirectory = ""
  /\ jsonFile = "in.json"
  /\ folderFiles = <<>>
  /\ document = [state |-> "ok", resources |-> ManifestOfShape(<<<<3, 3>>>>)]
  /\ database = SensorDatabase
  /\ userGroupCameraModel \in {0, 1, 2}
  /\ userCameraModelName \in {"", "pinhole"}
  /\ userKMatrix = <<>>
  /\ userFocalLengthPixel \in {MinusOne, R(1000, 1)}
  /\ userSensorWidth \in {MinusOne, R(36, 1)}
  /\ world \in {{ImageFile(TRUE, TRUE, wh[1], wh[2], NoExif)} :
                  wh \in {<<4, 2>>, <<2, 2>>, <<2, 4>>}}

\* images of 4 x 2 pixels of two cameras the database does not know and of
\* one it knows
SensorImages ==
  {ImageFile(TRUE, TRUE, 4, 2, Exif(bm[1], bm[2], "s1", R(50, 1), << >>)) :
     bm \in {<<"Foo", "X1">>, <<"Bar", "Y2">>, <<"Canon", "EOS">>}}

\* a run on a manifest of single images, each of any of these cameras
InitSensors ==
  /\ InitMain
  /\ DefaultOptions
  /\ imageDirectory = ""
  /\ jsonFile = "in.json"
  /\ folderFiles = <<>>
  /\ document \in {[state |-> "ok", resources |-> [i \in 1..n |-> JStr(FramePaths[i])]] :
                     n \in 1..MaxSensorImages}
  /\ world = SensorImages

\* a readable image of 4 x 2 pixels of a camera the database knows
KnownCameraImage ==
  ImageFile(TRUE, TRUE, 4, 2, Exif("Canon", "EOS", "s1", R(50, 1), << >>))

\* a run on the manifest of a resource tree, for each way of grouping the
\* intrinsics, where every file is the plain image or the image of the
\* known camera
InitTag ==
  /\ InitMain
  /\ imageDirectory = ""
  /\ jsonFile = "in.json"
  /\ folderFiles = <<>>
  /\ userKMatrix = <<>>
  /\ userCameraModelName = ""
  /\ userFocalLengthPixel = MinusOne
  /\ userSensorWidth = MinusOne
  /\ userGroupCameraModel \in {0, 1, 2}
  /\ database = SensorDatabase
  /\ document \in {[state |-> "ok", resources |-> ManifestOfShape(sh)] :
                     sh \in TreeShapes(MaxTagTreeSize)}
  /\ world = {PlainImage, KnownCameraImage}

\* a run on a manifest (-j), whatever the file holds, or on a directory (-i)
InitResolve ==
  /\ InitMain
  /\ DefaultOptions
  /\ world = {}
  /\ \/ /\ imageDirectory = ""
        /\ jsonFile = "in.json"
        /\ folderFiles = <<>>
        /\ \/ document \in {[state |-> "ok", resources |-> m] :
                              m \in Manifests(MaxManifestSize)}
           \/ document \in {[state |-> st, resources |-> <<>>] :
                              st \in {"missing", "notjson", "nomember", "notarray"}}
     \/ /\ imageDirectory \in {"photos", "nodir"}
        /\ jsonFile \in {"", "in.json"}
        /\ document = [state |-> "missing", resources |-> <<>>]
        /\ folderFiles \in Listings(MaxDirFiles)

NextResolve == ParseOptions \/ RetrieveImagePaths \/ CheckRig

SpecResolve == InitResolve /\ [][NextResolve]_vars

Next ==
  \/ ParseOptions
  \/ RetrieveImagePaths
  \/ CheckRig
  \/ BeginCamera
  \/ ProcessFrame
  \/ EndCamera
  \/ EndGroup
  \/ Report

SpecAssign == InitAssign /\ [][Next]_vars

SpecInfer == InitInfer /\ [][Next]_vars

SpecRig == InitRig /\ [][Next]_vars

SpecSensors == InitSensors /\ [][Next]_vars

SpecTag == InitTag /\ [][Next]_vars

(***************************** properties **********************************)
\* the places <<group, camera, frame>> of the resource tree, and the place
\* of a path
AllPositions ==
  UNION {UNION {{<<g, c, f>> : f \in 1..Len(allImagePaths[g][c])} :
                  c \in 1..Len(allImagePaths[g])} :
           g \in 1..Len(allImagePaths)}

PositionOf(path) ==
  CHOOSE p \in AllPositions : allImagePaths[p[1]][p[2]][p[3]] = path

IsRigGroup(g) == Len(allImagePaths[g]) > 1

\* C1: two distinct views have the same pose id if and only if they are
\* views of the same rig group with the same frame index in their cameras;
\* so the views of single images and of intrinsic groups share their pose id
\* with no view, and no pose id is used by views of two groups
C1_PoseIds ==
  \A v1, v2 \in DOMAIN views : v1 # v2 =>
    LET p1 == PositionOf(views[v1].imagePath)
        p2 == PositionOf(views[v2].imagePath)
    IN  (views[v1].poseId = views[v2].poseId)
          <=> (p1[1] = p2[1] /\ IsRigGroup(p1[1]) /\ p1[3] = p2[3])

\* a finished run with two rig views of one pose id, a view of another
\* group, and a frame that was skipped
C1_Witness ==
  /\ pc = "done"
  /\ exit = "EXIT_SUCCESS"
  /\ Cardinality(DOMAIN views) < nbTotalImages
  /\ \E v1, v2, v3 \in DOMAIN views :
       /\ v1 # v2
       /\ views[v1].poseId = views[v2].poseId
       /\ PositionOf(views[v3].imagePath)[1] # PositionOf(views[v1].imagePath)[1]

\* a rig group of the resource tree whose cameras differ in their number
\* of frames
HasMismatchedRig ==
  \E g \in 1..Len(allImagePaths) :
    /\ IsRigGroup(g)
    /\ \E c1, c2 \in 1..Len(allImagePaths[g]) :
         Len(allImagePaths[g][c1]) # Len(allImagePaths[g][c2])

\* C2: when a rig group has two cameras of different frame counts, the run
\* never gets past the rig check, no view is ever added, and the run does not
\* end in success
C2_RigFrameCount ==
  HasMismatchedRig =>
    /\ pc \in {"check", "done"}
    /\ DOMAIN views = {}
    /\ pc = "done" => exit \in {"EXIT_FAILURE", "crash"}

\* a run the rig check has ended in failure at a rig that is not the first
\* group
C2_Witness ==
  /\ HasMismatchedRig
  /\ pc = "done"
  /\ exit = "EXIT_FAILURE"
  /\ checkId > 1

\* C3: the views of one rig camera all have the width and the height of
\* the camera's first accepted frame: a frame that differs in one of the two
\* is never retained
C3_EitherDimension ==
  \A v1, v2 \in DOMAIN views :
    LET p1 == PositionOf(views[v1].imagePath)
        p2 == PositionOf(views[v2].imagePath)
    IN  (IsRigGroup(p1[1]) /\ p1[1] = p2[1] /\ p1[2] = p2[2])
          => (views[v1].width = views[v2].width /\ views[v1].height = views[v2].height)

\* C4: a frame whose view id is in the registry is skipped with the
\* duplicate warning, leaves the registry as it is and does not end the run;
\* and the registry holds one view per view that was added
C4_DuplicateLaw ==
  /\ [](nbCurrImages = Cardinality(DOMAIN views))
  /\ [][(pc = "frame" /\ frameId' = frameId + 1
         /\ lastFrame' \in {"duplicate", "view"} /\ viewId' \in DOMAIN views)
        => (views' = views /\ lastFrame' = "duplicate" /\ pc' = "frame" /\ exit' = "")]_vars

\* a run that has ended in success after a frame was skipped as a duplicate
C4_Witness ==
  /\ pc = "done"
  /\ exit = "EXIT_SUCCESS"
  /\ lastFrame = "duplicate"
  /\ Cardinality(DOMAIN views) >= 2
  /\ Cardinality(DOMAIN views) < nbTotalImages

\* the views whose camera's focal length in pixels stayed at the sentinel
LackIntrinsics ==
  {v \in DOMAIN views : intrinsics[views[v].intrinsicId].pxFocalLength = MinusOne}

\* C10: a run that has written its output fails if every view lacks
\* intrinsics, and succeeds otherwise, with the warning if and only if some
\* view lacks them
C10_FinalDecision ==
  (pc = "done" /\ saved) =>
    IF LackIntrinsics = DOMAIN views
    THEN exit = "EXIT_FAILURE"
    ELSE /\ exit = "EXIT_SUCCESS"
         /\ "views_without_metadata" \in warnings <=> LackIntrinsics # {}

\* a path whose extension is one of the supported ones, whatever its case
HasSupportedExtension(p) == ToLowerAll(extension_part(p)) \in supportedExtensions

\* g comes before h or is h: the paths of s are in sorted order
InSortedOrder(s) ==
  \A g, h \in 1..Len(s) : g < h => ~PathLess(s[h], s[g])

\* C5: in directory mode the resource tree has one group of one camera of
\* one frame for every file of the directory with a supported extension, in
\* the sorted order of the file names, and none for the other files
C5_DirectoryMode ==
  (imageDirectory # "" /\ pc \in {"check", "camera"}) =>
    /\ Len(allImagePaths) =
         Cardinality({i \in 1..Len(folderFiles) : HasSupportedExtension(folderFiles[i])})
    /\ \A g \in 1..Len(allImagePaths) :
         /\ Len(allImagePaths[g]) = 1
         /\ Len(allImagePaths[g][1]) = 1
         /\ HasSupportedExtension(allImagePaths[g][1][1])
    /\ InSortedOrder([g \in 1..Len(allImagePaths) |-> allImagePaths[g][1][1]])

\* the image files a path stands for: the file itself, or the files of the
\* folder and of its folders
RECURSIVE ResolvedFiles(_), ResolvedAll(_)
ResolvedFiles(p) ==
  IF is_file(p) THEN (IF HasSupportedExtension(p) THEN <<p>> ELSE <<>>)
  ELSE IF is_folder(p) THEN ResolvedAll(folder_all(p))
  ELSE <<>>

ResolvedAll(ps) ==
  IF ps = <<>> THEN <<>> ELSE ResolvedFiles(ps[1]) \o ResolvedAll(Tail(ps))

\* the strings of a sequence of JSON values, in order, and its arrays
StringsOf(vals) ==
  LET strs == SelectSeq(vals, IsString) IN [i \in 1..Len(strs) |-> strs[i].v]

ArraysOf(vals) == SelectSeq(vals, IsArray)

RECURSIVE Flatten(_)
Flatten(ss) == IF ss = <<>> THEN <<>> ELSE ss[1] \o Flatten(Tail(ss))

\* the groups of a top-level entry of the manifest: a singleton group per
\* file of a path; for a sequence, one group of the cameras of its nested
\* sequences and of the camera of its path entries, if they name a file
GroupsOfEntry(e) ==
  IF IsString(e)
  THEN LET files == ResolvedFiles(e.v)
       IN  [i \in 1..Len(files) |-> <<<<files[i]>>>>]
  ELSE LET nested == ArraysOf(e.v)
           rigCameras == [c \in 1..Len(nested) |-> ResolvedAll(StringsOf(nested[c].v))]
           shared == ResolvedAll(StringsOf(e.v))
       IN  << rigCameras \o (IF shared = <<>> THEN <<>> ELSE <<shared>>) >>

ExpectedTree ==
  Flatten([i \in 1..Len(document.resources) |-> GroupsOfEntry(document.resources[i])])

\* the groups of the tree of each class
RigGroups == {g \in 1..Len(allImagePaths) : Len(allImagePaths[g]) > 1}

IntrinsicGroups ==
  {g \in 1..Len(allImagePaths) :
     Len(allImagePaths[g]) = 1 /\ Len(allImagePaths[g][1]) > 1}

\* C6: a manifest is resolved into the groups of its entries, in manifest
\* order, and the rig check classifies a group as a rig if and only if it
\* has more than one camera, as an intrinsic group if and only if it has one
\* camera of more than one frame, and as a single image otherwise
C6_Classification ==
  (imageDirectory = "" /\ document.state = "ok") =>
    /\ exit # "crash"
    /\ pc = "camera" =>
         /\ allImagePaths = ExpectedTree
         /\ nbRigs = Cardinality(RigGroups)
         /\ nbInstrinsicGroup = Cardinality(IntrinsicGroups)
         /\ nbSingleImages = Len(allImagePaths) - nbRigs - nbInstrinsicGroup

\* the paths below a path that cannot be resolved or are empty folders
RECURSIVE Offending(_), OffendingAll(_)
Offending(p) ==
  IF is_file(p) THEN {}
  ELSE IF is_folder(p)
  THEN (IF folder_all(p) = <<>> THEN {p} ELSE OffendingAll(folder_all(p)))
  ELSE {p}

OffendingAll(ps) ==
  IF ps = <<>> THEN {} ELSE Offending(ps[1]) \cup OffendingAll(Tail(ps))

\* the paths of a manifest, at its three levels
RECURSIVE ManifestStrings(_)
ManifestStrings(vals) ==
  IF vals = <<>> THEN <<>>
  ELSE (IF IsString(vals[1]) THEN <<vals[1].v>> ELSE ManifestStrings(vals[1].v))
       \o ManifestStrings(Tail(vals))

\* C7: when a path of the manifest, or a path below one, cannot be resolved
\* or is an empty folder, the resolution fails and every such path has been
\* reported
C7_FailureAccumulation ==
  (imageDirectory = "" /\ document.state = "ok" /\ pc \notin {"options", "retrieve"}
     /\ OffendingAll(ManifestStrings(document.resources)) # {}) =>
    /\ pc = "done"
    /\ exit = "EXIT_FAILURE"
    /\ OffendingAll(ManifestStrings(document.resources)) \subseteq reported

\* the image of a run on one image, and the size its EXIF tags state
TheImage == CHOOSE img \in world : TRUE

HasStatedSize == {"image_width", "image_height"} \subseteq DOMAIN TheImage.exif.data

StatedWidth == TheImage.exif.data["image_width"]

StatedHeight == TheImage.exif.data["image_height"]

\* C8: an image with valid metadata whose EXIF tags state the transpose of
\* its decoded size is not flagged resized; one whose tags state a positive
\* size that differs from the decoded size in any other way is flagged
\* resized and, without a camera model given, gets the plain pinhole model
C8_ResizeDetection ==
  (lastFrame = "view" /\ imageMetadata.haveValidMetadata /\ HasStatedSize) =>
    LET transposed == StatedWidth = TheImage.height /\ StatedHeight = TheImage.width
        same       == StatedWidth = TheImage.width /\ StatedHeight = TheImage.height
    IN  /\ transposed => ~imageMetadata.isResized
        /\ (StatedWidth > 0 /\ StatedHeight > 0 /\ ~transposed /\ ~same) =>
             /\ imageMetadata.isResized
             /\ userCameraModelName = "" => intrinsics[0].type = "PINHOLE_CAMERA"

\* the pose ids of the views, and the views of a pose id
PoseIds == {views[v].poseId : v \in DOMAIN views}

ViewsOfPose(q) == {v \in DOMAIN views : views[v].poseId = q}

\* what C9 says of the rig scenario but for the warning list and the end of
\* the run: six views, one rig of two cameras, three pose ids each shared
\* by the two views of one frame index
RigScenarioViews ==
  /\ Cardinality(DOMAIN views) = 6
  /\ DOMAIN rigs = {0}
  /\ rigs[0] = 2
  /\ Cardinality(PoseIds) = 3
  /\ \A q \in PoseIds :
       /\ Cardinality(ViewsOfPose(q)) = 2
       /\ \A v1, v2 \in ViewsOfPose(q) :
            /\ views[v1].rigId = 0
            /\ PositionOf(views[v1].imagePath)[3] = PositionOf(views[v2].imagePath)[3]
            /\ v1 # v2 => views[v1].subPoseId # views[v2].subPoseId

\* two intrinsics whose serial numbers are the tags of the two cameras
RigScenarioIntrinsics ==
  /\ DOMAIN intrinsics = {0, 1}
  /\ intrinsics[0].serialNumber = RigSerial(0, 0)
  /\ intrinsics[1].serialNumber = RigSerial(0, 1)
  /\ intrinsics[0].serialNumber # intrinsics[1].serialNumber

\* C9 as stated: a run on the rig scenario that is not asked to group the
\* intrinsics by folder and has written its output has two intrinsics with
\* distinct tags, one rig of arity 2, three shared pose ids, six views, no
\* fatal error and six entries in the list of the images without metadata
C9_RigScenarioStated ==
  (pc = "done" /\ saved /\ userGroupCameraModel # 2) =>
    /\ RigScenarioViews
    /\ RigScenarioIntrinsics
    /\ exit = "EXIT_SUCCESS"
    /\ Len(noMetadataImages) = 6

\* C9 amended: when the listing of the rig scenario is over there are six
\* views, one rig of arity 2, three shared pose ids, the first frames of the
\* two cameras in the list of the images without metadata and, unless the
\* intrinsics are grouped by folder, two intrinsics with distinct tags of
\* their cameras; the finished run has its six views and the warning, and
\* has failed if and only if the output could not be written
C9_RigScenario ==
  /\ pc \in {"report", "done"} =>
       /\ RigScenarioViews
       /\ noMetadataImages = <<FramePaths[1], FramePaths[4]>>
  /\ (pc = "report" /\ userGroupCameraModel # 2) => RigScenarioIntrinsics
  /\ pc = "done" =>
       /\ "no_metadata" \in warnings
       /\ exit = IF saved THEN "EXIT_SUCCESS" ELSE "EXIT_FAILURE"

\* a run on the rig scenario with the default parameters that has ended in
\* success
C9_Witness ==
  /\ pc = "done"
  /\ exit = "EXIT_SUCCESS"
  /\ userGroupCameraModel = 1
  /\ userSensorWidth = MinusOne
  /\ Cardinality(DOMAIN views) = 6
  /\ Len(noMetadataImages) = 2

\* the image of a run on one image has valid metadata, the database does not
\* know its camera, and the parameters of the run that fix the sensor width
\* or the focal length in pixels
ValidMetadata ==
  TheImage.exif.hasExif /\ TheImage.exif.brand # "" /\ TheImage.exif.model # ""

DatabaseMiss == <<TheImage.exif.brand, TheImage.exif.model>> \notin DOMAIN database

SensorWidthGiven == userSensorWidth # MinusOne

FocalLengthGiven == userKMatrix # <<>> \/ userFocalLengthPixel # MinusOne

\* C11: a run whose camera has valid metadata and a (brand, model) the
\* database misses, with no sensor width, K matrix or focal length in pixels
\* given, ends in failure without writing its output; and the list of the
\* unknown sensors stays empty when a sensor width, a K matrix or a focal
\* length in pixels is given or the metadata is invalid
C11_UnknownSensorEscalation ==
  /\ (pc = "done" /\ lastFrame = "view" /\ ValidMetadata /\ DatabaseMiss
        /\ ~SensorWidthGiven /\ ~FocalLengthGiven) =>
       /\ unknownSensorImages # <<>>
       /\ exit = "EXIT_FAILURE"
       /\ ~saved
  /\ (SensorWidthGiven \/ FocalLengthGiven \/ ~ValidMetadata) =>
       unknownSensorImages = <<>>

\* C12: the list of the unknown sensors a finished run has reported holds
\* no two entries of the same brand and the same model
C12_UnknownSensorsDistinct ==
  pc = "done" =>
    \A i, j \in 1..Len(unknownSensorImages) :
      (i # j) => ~SameSensor(unknownSensorImages[i], unknownSensorImages[j])

\* the sensor width of the image of a run on one image: the one given, or
\* else the one of the database (-1 when there is neither)
KnownSensorWidth ==
  IF SensorWidthGiven THEN userSensorWidth
  ELSE IF DatabaseMiss THEN MinusOne
  ELSE database[<<TheImage.exif.brand, TheImage.exif.model>>]

\* a double that is a number above 0
RPositive(a) == a.d > 0 /\ a.n > 0

\* C13: with no K matrix and no focal length in pixels given, the focal
\* length in pixels of the intrinsic is max(metadata width, metadata height)
\* * focal length in mm / sensor width when the focal length in mm and the
\* sensor width are known and positive, and stays at -1 otherwise
C13_FocalLengthTrust ==
  (lastFrame = "view" /\ ~FocalLengthGiven) =>
    intrinsics[0].pxFocalLength =
      IF RPositive(imageMetadata.mmFocalLength) /\ RPositive(KnownSensorWidth)
      THEN RDiv(RMul(FromInt(Max(imageMetadata.metadataImageWidth,
                                 imageMetadata.metadataImageHeight)),
                     imageMetadata.mmFocalLength),
                KnownSensorWidth)
      ELSE MinusOne

\* a K matrix of nine fields that all read as numbers
IsWellFormedK(k) == Len(k) = 9 /\ \A i \in 1..9 : k[i].num

\* C14: with a well-formed K matrix the intrinsic has the focal length in
\* pixels of field 0 and the principal point of fields 2 and 5, whatever the
\* image, its EXIF and the sensor database; with a malformed one the run
\* fails before it reads any image
C14_KMatrixRoundTrip ==
  /\ (IsWellFormedK(userKMatrix) /\ lastFrame = "view") =>
       /\ intrinsics[0].pxFocalLength = FromInt(userKMatrix[1].val)
       /\ intrinsics[0].ppx = FromInt(userKMatrix[3].val)
       /\ intrinsics[0].ppy = FromInt(userKMatrix[6].val)
  /\ (userKMatrix # <<>> /\ ~IsWellFormedK(userKMatrix) /\ pc # "options") =>
       /\ pc = "done"
       /\ exit = "EXIT_FAILURE"
       /\ lastFrame = ""
       /\ allImagePaths = <<>>

\* the cameras of the resource tree, and the number of the cameras the
\* listing visits before camera c of group g
NbAllCameras == SumSeq([g \in 1..Len(allImagePaths) |-> Len(allImagePaths[g])])

CameraIndex(g, c) ==
  SumSeq([h \in 1..(g - 1) |-> Len(allImagePaths[h])]) + (c - 1)

CameraOf(v) == SubSeq(PositionOf(views[v].imagePath), 1, 2)

\* C15: when the listing is over one intrinsic id has been allocated per
\* camera, the cameras without a view included; every view has the intrinsic
\* id of its camera, the number of the cameras visited before it, which is
\* a key of the registry of the intrinsics; and the views of one camera have
\* the same intrinsic id and the same metadata
C15_IntrinsicIds ==
  pc = "report" =>
    /\ intrinsicId = NbAllCameras
    /\ \A v \in DOMAIN views :
         /\ views[v].intrinsicId = CameraIndex(CameraOf(v)[1], CameraOf(v)[2])
         /\ views[v].intrinsicId \in DOMAIN intrinsics
    /\ \A v1, v2 \in DOMAIN views :
         CameraOf(v1) = CameraOf(v2) =>
           /\ views[v1].intrinsicId = views[v2].intrinsicId
           /\ views[v1].metadata = views[v2].metadata

\* the listing is over: the frame of the first camera was skipped, so that
\* no intrinsic has its id 0, and two views of the second camera have the
\* intrinsic id 1
C15_Witness ==
  /\ pc = "report"
  /\ Len(allImagePaths[1]) = 1
  /\ Len(allImagePaths[1][1]) = 1
  /\ 0 \notin DOMAIN intrinsics
  /\ \E v1, v2 \in DOMAIN views :
       /\ v1 # v2
       /\ views[v1].intrinsicId = 1
       /\ views[v2].intrinsicId = 1

\* the focal length in mm of the EXIF is known and below 15 mm
ShortFocalLength ==
  /\ RPositive(imageMetadata.mmFocalLength)
  /\ imageMetadata.mmFocalLength.n < 15 * imageMetadata.mmFocalLength.d

\* C16: the model kind of the intrinsic is the one of the camera model
\* given; or else, for the brand "Custom", the one its synthesized model
\* name reads as; or else plain pinhole for an image flagged resized; or else
\* fisheye for a known focal length below 15 mm; or else radial-3
C16_ModelKindPrecedence ==
  lastFrame = "view" =>
    intrinsics[0].type =
      IF userCameraModelName # "" THEN EINTRINSIC_stringToEnum(userCameraModelName)
      ELSE IF imageMetadata.cameraBrand = "Custom"
      THEN EINTRINSIC_stringToEnum(imageMetadata.cameraModel)
      ELSE IF imageMetadata.isResized THEN "PINHOLE_CAMERA"
      ELSE IF ShortFocalLength THEN "PINHOLE_CAMERA_FISHEYE"
      ELSE "PINHOLE_CAMERA_RADIAL3"

\* with no camera model given, an image flagged resized whose focal length
\* is below 15 mm has got the plain pinhole model
C16_Witness ==
  /\ lastFrame = "view"
  /\ userCameraModelName = ""
  /\ imageMetadata.cameraBrand # "Custom"
  /\ imageMetadata.isResized
  /\ ShortFocalLength
  /\ intrinsics[0].type = "PINHOLE_CAMERA"

\* the places in the list of the images without metadata, the camera of
\* each, and the id of its intrinsic
NoMetadataCameras == 1..Len(noMetadataImages)

NoMetadataCamera(k) == SubSeq(PositionOf(noMetadataImages[k]), 1, 2)

NoMetadataIntrinsic(k) == CameraIndex(NoMetadataCamera(k)[1], NoMetadataCamera(k)[2])

\* the camera is one of a rig, or one of several frames
IsTaggedCamera(gc) ==
  Len(allImagePaths[gc[1]]) > 1 \/ Len(allImagePaths[gc[1]][gc[2]]) > 1

\* the tag the camera of a group (counted from 0) should get
ExpectedTag(gc, firstPath) ==
  IF userGroupCameraModel = 2 THEN FolderSerial(folder_part(firstPath))
  ELSE IF Len(allImagePaths[gc[1]]) > 1 THEN RigSerial(gc[1] - 1, gc[2] - 1)
  ELSE GroupSerial(gc[1] - 1)

\* C17: during the listing, the intrinsic of a camera whose first accepted
\* frame has no valid metadata has the folder of that frame as serial number
\* when the intrinsics are grouped by folder and otherwise the tag of its
\* (group, camera) for a rig camera and of its group for a camera of several
\* frames; two such cameras never get the same tag; and every other
\* intrinsic has the serial number of the EXIF of an image
C17_SerialTags ==
  pc \in {"camera", "frame", "report"} =>
    /\ \A k \in NoMetadataCameras :
         (userGroupCameraModel = 2 \/ IsTaggedCamera(NoMetadataCamera(k))) =>
           intrinsics[NoMetadataIntrinsic(k)].serialNumber =
             ExpectedTag(NoMetadataCamera(k), noMetadataImages[k])
    /\ \A k1, k2 \in NoMetadataCameras :
         (/\ k1 # k2
          /\ userGroupCameraModel # 2
          /\ IsTaggedCamera(NoMetadataCamera(k1))
          /\ IsTaggedCamera(NoMetadataCamera(k2))) =>
           intrinsics[NoMetadataIntrinsic(k1)].serialNumber #
             intrinsics[NoMetadataIntrinsic(k2)].serialNumber
    /\ \A i \in DOMAIN intrinsics \ {NoMetadataIntrinsic(k) : k \in NoMetadataCameras} :
         \E img \in world :
           /\ img.exif.hasExif
           /\ intrinsics[i].serialNumber = ExifSerial(img.exif.serial)

\* the listing is over: the tree has a rig of two cameras and an intrinsic
\* group, all three without metadata, which have got three tags
C17_Witness ==
  /\ pc = "report"
  /\ userGroupCameraModel = 1
  /\ Len(noMetadataImages) = 3
  /\ {intrinsics[i].serialNumber.kind : i \in DOMAIN intrinsics} =
       {"no_metadata_rig", "no_metadata_intrincic_group"}
  /\ Cardinality({intrinsics[i].serialNumber : i \in DOMAIN intrinsics}) = 3

\* C18: every group of the resource tree of a manifest the resolver has
\* accepted has a camera, and the rig check never reads the frame count of
\* the first camera of a group that has none
C18_GroupsHaveCameras ==
  (imageDirectory = "" /\ document.state = "ok") =>
    /\ pc \in {"check", "camera"} =>
         \A g \in 1..Len(allImagePaths) : Len(allImagePaths[g]) >= 1
    /\ exit # "crash"

====
